---- MODULE Spec2Model ----
(***************************************************************************)
(* Alexandria CMDB: CI type schema validation (CIType.Validate and         *)
(* CIType.validateAttributes), attribute lookup by short name              *)
(* (CITypeAttributeList.Get), the attribute format validators, the         *)
(* singleton configuration loader (GetConfig / GetConfigFromFile), and the *)
(* REST handlers that write CI types (AddCIType, UpdateCITypeByName).      *)
(*                                                                         *)
(* Go strings that the code inspects character by character or             *)
(* concatenates (names, short names, error paths) are sequences of         *)
(* one-character strings.  Attribute type names are only compared and      *)
(* looked up, so they stay TLA+ strings.                                   *)
(***************************************************************************)
EXTENDS Integers, Sequences, FiniteSets, TLC

VARIABLES
    pc,         \* position of the schema request: "bound", "validated"
    input,      \* the CIType as Bind decoded it, before Validate touched it
    citype,     \* the CIType object that Validate mutates in place
    err,        \* the error Validate returned (Nil for nil)
    examined,   \* number of attributes whose loop body validateAttributes entered
    got,        \* result of the last CITypeAttributeList.Get on the root list
    fpc,        \* position of the value validation: "ready", "done"
    vformat,    \* name of the format whose validator is called
    vatt,       \* the attribute definition handed to the validator
    val0,       \* the value cell before the call
    val,        \* the value cell (the validator writes the coerced value to it)
    verr,       \* the error the validator returned
    config,     \* the package variable config: 0 for nil, else the Config it points to
    confFilePath, \* the package variable confFilePath
    files,      \* the file system: what each path holds
    cpc,        \* per caller: the statement it executes next
    call,       \* per caller: the function it called
    arg,        \* per caller: the path handed to GetConfigFromFile
    opened,     \* per caller: what the file it opened holds
    calls,      \* per caller: number of calls made
    allocated,  \* number of Config structures allocated so far
    discarded,  \* the Configs whose decoding failed
    returned,   \* the non-nil pointers returned to callers
    loaded,     \* a configuration has been loaded (the log line was written)
    late,       \* per caller: its call began after a configuration was loaded
    store,      \* the records of the collection "citypes"
    response    \* what the last REST handler rendered

schemaVars == <<pc, input, citype, err, examined, got>>

formatVars == <<fpc, vformat, vatt, val0, val, verr>>

configVars == <<config, confFilePath, files, cpc, call, arg, opened, calls, allocated,
                discarded, returned, loaded, late>>

storeVars == <<store, response>>

(***************************************************************************)
(* Bounds and input domains                                                *)
(***************************************************************************)

\* largest number of attributes (over all depths) of a schema
MaxNodes == 3

\* number of goroutines that call the configuration loader
NumCallers == 2

\* number of calls each of them makes
MaxCalls == 2

\* largest number of records the collection of CI types holds
MaxRecords == 2

\* names a request may carry for the CI type: empty, valid, invalid characters
CITypeNames == {<<>>, <<"A">>, <<"!">>}

\* short names a request may carry for the CI type
CITypeShortNames == {<<>>, <<"x">>, <<"!">>}

\* names a request may carry for an attribute
AttributeNames == {<<>>, <<"A">>, <<"!">>}

\* short names a request may carry for an attribute
AttributeShortNames == {<<"x">>}

\* attribute types a request may carry; "bogus" is a name nobody registered
AttributeTypes == {"", "string", "group", "bogus"}

(***************************************************************************)
(* Names (NameNormalizer) and the format registry                          *)
(***************************************************************************)

UpperCase == <<"A", "B", "C", "D", "E", "F", "G", "H", "I", "J", "K", "L", "M",
               "N", "O", "P", "Q", "R", "S", "T", "U", "V", "W", "X", "Y", "Z">>

LowerCase == <<"a", "b", "c", "d", "e", "f", "g", "h", "i", "j", "k", "l", "m",
               "n", "o", "p", "q", "r", "s", "t", "u", "v", "w", "x", "y", "z">>

Digits == <<"0", "1", "2", "3", "4", "5", "6", "7", "8", "9">>

Range(s) == {s[i] : i \in 1..Len(s)}

\* strings.ToLower on one character
ToLowerChar(ch) ==
    IF ch \in Range(UpperCase)
    THEN LowerCase[CHOOSE i \in 1..Len(UpperCase) : UpperCase[i] = ch]
    ELSE ch

\* strings.ToLower
ToLower(s) == [i \in 1..Len(s) |-> ToLowerChar(s[i])]

\* the identifier alphabet: ASCII letters, digits and separators
ShortNameAlphabet == Range(LowerCase) \cup Range(UpperCase) \cup Range(Digits) \cup {"-", "_"}

\* derives the short name of a name: lower-cases it
GetShortName(name) == ToLower(name)

\* re-checks the identifier alphabet
IsValidShortName(s) == \A i \in 1..Len(s) : s[i] \in ShortNameAlphabet

\* the formats registered at start-up
RegisteredFormats == {"string", "number", "boolean", "timestamp", "group"}

\* the nil *AttributeFormat
NilFormat == "<nil>"

\* lookup of a format by name; NilFormat when nobody registered the name
GetAttributeFormat(name) == IF name \in RegisteredFormats THEN name ELSE NilFormat

(***************************************************************************)
(* Errors                                                                  *)
(***************************************************************************)

\* a nil error
Nil == [msg |-> "", format |-> "", attribute |-> <<>>]

\* errors.New(msg) / errors.New(fmt.Sprintf(msg, format, path, shortName))
NewError(msg, format, attribute) == [msg |-> msg, format |-> format, attribute |-> attribute]

ErrNoCITypeName == "No CI Type name specified"
ErrCITypeChars == "Invalid characters in CI Type name"
ErrNoAttributeName == "No attribute name specified"
ErrAttributeChars == "Invalid characters in CI Attribute"
ErrNoType == "No type specified for CI Attribute"
ErrUnsupported == "Unsupported attribute format"
ErrChildren == "has children but is not a group attribute"

(***************************************************************************)
(* CIType.validateAttributes                                               *)
(***************************************************************************)

\* the path handed to the recursive call for the children of a group
ChildPath(path, att) == att.ShortName \o <<".">>

\* the '%s%s' of an error message: path, then the attribute's short name
AttributePath(path, att) == path \o att.ShortName

\* the else-if branch left out: children are never looked at
HasIllegalChildren_Never(att) == FALSE

\* att.Type != "group" && len(att.Children) > 0
HasIllegalChildren(att) == att.Type # "group" /\ Len(att.Children) > 0

\* the registry lookup left out: every type name is taken as supported
IsUnsupportedFormat_Never(att) == FALSE

\* GetAttributeFormat(att.Type) == nil
IsUnsupportedFormat(att) == GetAttributeFormat(att.Type) = NilFormat

\* att.ShortName = GetShortName(att.Name)
DeriveAttributeShortName_IfEmpty(att) ==
    IF att.ShortName = <<>> THEN [att EXCEPT !.ShortName = GetShortName(att.Name)] ELSE att

\* att.ShortName = GetShortName(att.Name)
DeriveAttributeShortName(att) == [att EXCEPT !.ShortName = GetShortName(att.Name)]

\* the outcome of one loop body, or of the whole loop
Outcome(e, a, n) == [err |-> e, atts |-> a, examined |-> n]

RECURSIVE validateAttributes(_, _)
RECURSIVE validateLoop(_, _, _, _)
RECURSIVE validateAttribute(_, _)

\* one iteration of the loop: the checks on (*atts)[index]; atts holds the
\* attribute as the iteration leaves it
validateAttribute(att0, path) ==
    IF att0.Name = <<>>
    THEN Outcome(NewError(ErrNoAttributeName, "", <<>>), att0, 1)
    ELSE LET att == DeriveAttributeShortName(att0) IN
         IF ~IsValidShortName(att.ShortName)
         THEN Outcome(NewError(ErrAttributeChars, "", AttributePath(path, att)), att, 1)
         ELSE IF att.Type = ""
         THEN Outcome(NewError(ErrNoType, "", AttributePath(path, att)), att, 1)
         ELSE IF IsUnsupportedFormat(att)
         THEN Outcome(NewError(ErrUnsupported, att.Type, AttributePath(path, att)), att, 1)
         ELSE IF att.Type = "group"
         THEN LET r == validateAttributes(att.Children, ChildPath(path, att)) IN
              Outcome(r.err, [att EXCEPT !.Children = r.atts], 1 + r.examined)
         ELSE IF HasIllegalChildren(att)
         THEN Outcome(NewError(ErrChildren, "", AttributePath(path, att)), att, 1)
         ELSE Outcome(Nil, att, 1)

\* the loop carrying on after an error and returning the last one it met
validateLoop_KeepGoing(atts, index, path, n) ==
    IF index > Len(atts)
    THEN Outcome(Nil, atts, n)
    ELSE LET r == validateAttribute(atts[index], path)
             next == [atts EXCEPT ![index] = r.atts]
             rest == validateLoop(next, index + 1, path, n + r.examined)
         IN  IF r.err # Nil /\ rest.err = Nil
             THEN Outcome(r.err, rest.atts, rest.examined)
             ELSE rest

\* the for loop from index on, returning at the first error
validateLoop(atts, index, path, n) ==
    IF index > Len(atts)
    THEN Outcome(Nil, atts, n)
    ELSE LET r == validateAttribute(atts[index], path)
             next == [atts EXCEPT ![index] = r.atts]
         IN  IF r.err # Nil
             THEN Outcome(r.err, next, n + r.examined)
             ELSE validateLoop(next, index + 1, path, n + r.examined)

validateAttributes(atts, path) == validateLoop(atts, 1, path, 0)

(***************************************************************************)
(* CIType.Validate                                                         *)
(***************************************************************************)

\* the short name derived whether or not the request supplied one
DefaultShortName_Always(c) == [c EXCEPT !.ShortName = GetShortName(c.Name)]

\* if c.ShortName == "" { c.ShortName = GetShortName(c.Name) }
DefaultShortName(c) ==
    IF c.ShortName = <<>> THEN [c EXCEPT !.ShortName = GetShortName(c.Name)] ELSE c

\* the CIType after the call, the error returned, the attributes examined
ValidateCIType(c0) ==
    IF c0.Name = <<>>
    THEN [err |-> NewError(ErrNoCITypeName, "", <<>>), c |-> c0, examined |-> 0]
    ELSE LET c == DefaultShortName(c0) IN
         IF ~IsValidShortName(c.ShortName)
         THEN [err |-> NewError(ErrCITypeChars, "", <<>>), c |-> c, examined |-> 0]
         ELSE LET r == validateAttributes(c.Attributes, <<>>) IN
              [err |-> r.err, c |-> [c EXCEPT !.Attributes = r.atts], examined |-> r.examined]

(***************************************************************************)
(* CITypeAttributeList.Get                                                 *)
(***************************************************************************)

\* index of the attribute Get returns a copy of, 0 for nil
GetIndex(atts, name) ==
    LET lname == ToLower(name)
        hits == {i \in 1..Len(atts) : atts[i].ShortName = lname}
    IN  IF hits = {} THEN 0 ELSE CHOOSE i \in hits : \A j \in hits : i <= j

(***************************************************************************)
(* Requests                                                                *)
(***************************************************************************)

\* the field values of one attribute, children apart
AttributeLabels ==
    [Name : AttributeNames, ShortName : AttributeShortNames, Type : AttributeTypes]

MakeAttribute(l, ch) ==
    [Name |-> l.Name, ShortName |-> l.ShortName, Type |-> l.Type, Children |-> ch]

\* the shapes of an attribute forest of n attributes: the depth of each
\* attribute, in the order the request lists them (a child follows its parent)
Shapes(n) ==
    { d \in [1..n -> 1..n] :
        /\ n > 0 => d[1] = 1
        /\ \A i \in 1..(n - 1) : d[i + 1] <= d[i] + 1 }

\* last index of the subtree that starts at lo, within lo..hi
SubtreeEnd(depth, lo, hi) ==
    LET later == {j \in (lo + 1)..hi : depth[j] <= depth[lo]}
    IN  IF later = {} THEN hi ELSE (CHOOSE j \in later : \A k \in later : j <= k) - 1

RECURSIVE BuildList(_, _, _, _)
\* the attribute list decoded from the attributes lo..hi of a request
BuildList(depth, labels, lo, hi) ==
    IF lo > hi THEN <<>>
    ELSE LET end == SubtreeEnd(depth, lo, hi) IN
         <<MakeAttribute(labels[lo], BuildList(depth, labels, lo + 1, end))>>
            \o BuildList(depth, labels, end + 1, hi)

(***************************************************************************)
(* The schema state machine                                                *)
(***************************************************************************)

\* Validate treats the attributes alike under every CI type name and short
\* name it accepts, and never reaches them under one it rejects: the requests
\* with a valid name and no short name carry up to MaxNodes attributes, the
\* others at most one
RequestSizes(name, shortName) ==
    IF name # <<>> /\ shortName = <<>> /\ IsValidShortName(GetShortName(name))
    THEN 0..MaxNodes ELSE 0..1

InitSchema ==
    /\ pc = "bound"
    /\ \E name \in CITypeNames, shortName \in CITypeShortNames :
         \E n \in RequestSizes(name, shortName) :
            \E depth \in Shapes(n), labels \in [1..n -> AttributeLabels] :
               input = [Name |-> name, ShortName |-> shortName,
                        Attributes |-> BuildList(depth, labels, 1, n)]
    /\ citype = input
    /\ err = Nil
    /\ examined = 0
    /\ got = 0

\* the field values of the attributes of a request that supplies the short
\* names itself: none, one that differs from the derived one, an invalid one
SuppliedShortNames == {<<>>, <<"x">>, <<"!">>}

SuppliedLabels ==
    [Name : {<<"A">>, <<"!">>}, ShortName : SuppliedShortNames, Type : {"string", "group"}]

InitSupplied ==
    /\ pc = "bound"
    /\ \E name \in CITypeNames, shortName \in CITypeShortNames :
         \E n \in RequestSizes(name, shortName) :
            \E depth \in Shapes(n), labels \in [1..n -> SuppliedLabels] :
               input = [Name |-> name, ShortName |-> shortName,
                        Attributes |-> BuildList(depth, labels, 1, n)]
    /\ citype = input
    /\ err = Nil
    /\ examined = 0
    /\ got = 0

\* err = citype.Validate()
Validate ==
    /\ pc = "bound"
    /\ LET r == ValidateCIType(citype) IN
        /\ citype' = r.c
        /\ err' = r.err
        /\ examined' = r.examined
    /\ pc' = "validated"
    /\ UNCHANGED <<input, got>>
    /\ UNCHANGED formatVars
    /\ UNCHANGED configVars
    /\ UNCHANGED storeVars

\* err = citype.Validate() once more, on a schema that Validate accepted
ValidateAgain ==
    /\ pc = "validated"
    /\ err = Nil
    /\ LET r == ValidateCIType(citype) IN
        /\ citype' = r.c
        /\ err' = r.err
        /\ examined' = r.examined
    /\ pc' = "revalidated"
    /\ UNCHANGED <<input, got>>
    /\ UNCHANGED formatVars
    /\ UNCHANGED configVars
    /\ UNCHANGED storeVars

\* citype.Attributes.Get(name) on a validated schema
Get ==
    /\ pc = "validated"
    /\ err = Nil
    /\ \E name \in {<<"a">>, <<"A">>, <<"x">>} :
          got' = GetIndex(citype.Attributes, name)
    /\ UNCHANGED <<pc, input, citype, err, examined>>
    /\ UNCHANGED formatVars
    /\ UNCHANGED configVars
    /\ UNCHANGED storeVars

(***************************************************************************)
(* Attribute format validators: Validate(att, &val)                        *)
(***************************************************************************)

\* values of the interface{} cell: text, number, boolean, mapping
StrVal(s) == [kind |-> "string", s |-> s, n |-> 0, b |-> FALSE]
NumVal(n) == [kind |-> "number", s |-> <<>>, n |-> n, b |-> FALSE]
BoolVal(b) == [kind |-> "bool", s |-> <<>>, n |-> 0, b |-> b]
MapVal == [kind |-> "map", s |-> <<>>, n |-> 0, b |-> FALSE]

\* a validator's return: the error ("" for nil) and the cell as it leaves it
Verdict(e, v) == [err |-> e, val |-> v]

\* the value of one decimal digit
DigitValue(ch) == (CHOOSE i \in 1..Len(Digits) : Digits[i] = ch) - 1

RECURSIVE DigitsValue(_)
\* the number a string of decimal digits denotes
DigitsValue(s) ==
    IF s = <<>> THEN 0
    ELSE 10 * DigitsValue(SubSeq(s, 1, Len(s) - 1)) + DigitValue(s[Len(s)])

\* a string parses as a number: an optional sign, then digits
IsNumeric(s) ==
    LET body == IF s # <<>> /\ s[1] = "-" THEN Tail(s) ELSE s IN
    body # <<>> /\ \A i \in 1..Len(body) : body[i] \in Range(Digits)

\* the number a numeric string denotes
ParseNumber(s) ==
    IF s[1] = "-" THEN 0 - DigitsValue(Tail(s)) ELSE DigitsValue(s)

\* the filter patterns of the model, matched against the whole string
Matches(pattern, s) ==
    CASE pattern = "^[a-zA-Z]+$" ->
            s # <<>> /\ \A i \in 1..Len(s) : s[i] \in Range(LowerCase) \cup Range(UpperCase)
      [] pattern = "^[0-9]+$" ->
            s # <<>> /\ \A i \in 1..Len(s) : s[i] \in Range(Digits)
      [] OTHER -> FALSE

\* the validator not looking at the definition's type
TypeMismatch_Never(a, name) == FALSE

\* the definition was written for another format than the validator's own
TypeMismatch(a, name) == a.Type # name

\* a bound of 0 is no bound
BelowMin(a, n) == a.MinValue # 0 /\ n < a.MinValue
AboveMax(a, n) == a.MaxValue # 0 /\ n > a.MaxValue

\* every non-zero number taken as true
BooleanOfNumber_NonZero(n) == n # 0

\* the boolean a number coerces to
BooleanOfNumber(n) == n > 0

StringFormatValidate(a, v) ==
    IF TypeMismatch(a, "string") THEN Verdict("attribute type mismatch", v)
    ELSE IF v.kind # "string" THEN Verdict("value is not a string", v)
    ELSE IF v.s = <<>>
    THEN IF a.Required THEN Verdict("a value is required", v) ELSE Verdict("", v)
    ELSE IF a.MinLength > 0 /\ Len(v.s) < a.MinLength THEN Verdict("value is too short", v)
    ELSE IF a.MaxLength > 0 /\ Len(v.s) > a.MaxLength THEN Verdict("value is too long", v)
    ELSE IF \E i \in 1..Len(a.Filters) : ~Matches(a.Filters[i], v.s)
    THEN Verdict("value does not match filter", v)
    ELSE Verdict("", v)

NumberFormatValidate(a, v) ==
    IF TypeMismatch(a, "number") THEN Verdict("attribute type mismatch", v)
    ELSE IF v.kind = "number"
    THEN IF BelowMin(a, v.n) \/ AboveMax(a, v.n)
         THEN Verdict("value out of range", v) ELSE Verdict("", v)
    ELSE IF v.kind = "string" /\ IsNumeric(v.s)
    THEN IF BelowMin(a, ParseNumber(v.s)) \/ AboveMax(a, ParseNumber(v.s))
         THEN Verdict("value out of range", v) ELSE Verdict("", NumVal(ParseNumber(v.s)))
    ELSE Verdict("value is not a number", v)

BooleanFormatValidate(a, v) ==
    IF TypeMismatch(a, "boolean") THEN Verdict("attribute type mismatch", v)
    ELSE IF v.kind = "bool" THEN Verdict("", v)
    ELSE IF v.kind = "string" /\ ToLower(v.s) = <<"t", "r", "u", "e">>
    THEN Verdict("", BoolVal(TRUE))
    ELSE IF v.kind = "string" /\ ToLower(v.s) = <<"f", "a", "l", "s", "e">>
    THEN Verdict("", BoolVal(FALSE))
    ELSE IF v.kind = "number" THEN Verdict("", BoolVal(BooleanOfNumber(v.n)))
    ELSE Verdict("value is not a boolean", v)

\* only the epoch-millisecond form of a timestamp is modelled
TimestampFormatValidate(a, v) ==
    IF TypeMismatch(a, "timestamp") THEN Verdict("attribute type mismatch", v)
    ELSE IF v.kind = "string" /\ IsNumeric(v.s) THEN Verdict("", NumVal(ParseNumber(v.s)))
    ELSE IF v.kind = "number" THEN Verdict("", v)
    ELSE Verdict("value is not a timestamp", v)

GroupFormatValidate(a, v) ==
    IF TypeMismatch(a, "group") THEN Verdict("attribute type mismatch", v)
    ELSE IF v.kind # "map" THEN Verdict("value is not a group", v)
    ELSE Verdict("", v)

\* GetAttributeFormat(name).Validate(a, &v)
FormatValidate(name, a, v) ==
    CASE name = "string" -> StringFormatValidate(a, v)
      [] name = "number" -> NumberFormatValidate(a, v)
      [] name = "boolean" -> BooleanFormatValidate(a, v)
      [] name = "timestamp" -> TimestampFormatValidate(a, v)
      [] name = "group" -> GroupFormatValidate(a, v)

\* the attribute definitions handed to validators
ValueAttributes ==
    [Type : RegisteredFormats \cup {"notstring", "notgroup"},
     Required : BOOLEAN,
     MinLength : {0, 3},
     MaxLength : {0, 4},
     Filters : {<<>>, <<"^[a-zA-Z]+$">>},
     MinValue : {0, 5},
     MaxValue : {0, 9}]

\* the values handed to validators
Values ==
    { StrVal(<<>>), StrVal(<<"T", "R", "U", "E">>), StrVal(<<"F", "a", "l", "s", "e">>),
      StrVal(<<"n", "o">>), StrVal(<<"1", "0">>), StrVal(<<"-", "1", "0">>),
      StrVal(<<"S", "h", "o", "u", "l", "d">>) }
    \cup { NumVal(n) : n \in {-10, -1, 0, 1, 10} }
    \cup { BoolVal(TRUE), BoolVal(FALSE), MapVal }

InitFormat ==
    /\ fpc = "ready"
    /\ vformat = ""
    /\ vatt \in ValueAttributes
    /\ val0 \in Values
    /\ val = val0
    /\ verr = ""

\* err = vformat.Validate(vatt, &val)
CallValidate(name) ==
    /\ fpc = "ready"
    /\ vformat' = name
    /\ LET r == FormatValidate(name, vatt, val) IN
        /\ val' = r.val
        /\ verr' = r.err
    /\ fpc' = "done"
    /\ UNCHANGED <<vatt, val0>>

ValidateString == CallValidate("string") /\ UNCHANGED schemaVars /\ UNCHANGED configVars
        /\ UNCHANGED storeVars
ValidateNumber == CallValidate("number") /\ UNCHANGED schemaVars /\ UNCHANGED configVars
        /\ UNCHANGED storeVars
ValidateBoolean == CallValidate("boolean") /\ UNCHANGED schemaVars /\ UNCHANGED configVars
        /\ UNCHANGED storeVars
ValidateTimestamp == CallValidate("timestamp") /\ UNCHANGED schemaVars /\ UNCHANGED configVars
        /\ UNCHANGED storeVars
ValidateGroup == CallValidate("group") /\ UNCHANGED schemaVars /\ UNCHANGED configVars
        /\ UNCHANGED storeVars

\* the schema request at rest, for the behaviours that validate values
IdleSchema ==
    /\ pc = "idle"
    /\ input = [Name |-> <<>>, ShortName |-> <<>>, Attributes |-> <<>>]
    /\ citype = input
    /\ err = Nil
    /\ examined = 0
    /\ got = 0

\* the validators at rest, for the behaviours that validate schemas
IdleFormat ==
    /\ fpc = "idle"
    /\ vformat = ""
    /\ vatt = [Type |-> "", Required |-> FALSE, MinLength |-> 0, MaxLength |-> 0,
              Filters |-> <<>>, MinValue |-> 0, MaxValue |-> 0]
    /\ val0 = MapVal
    /\ val = MapVal
    /\ verr = ""

(***************************************************************************)
(* GetConfig and GetConfigFromFile                                         *)
(*                                                                         *)
(* The package variables are shared by the callers without any lock: each  *)
(* statement that reads or writes them is one step, and the steps of       *)
(* different callers interleave.                                           *)
(***************************************************************************)

Callers == 1..NumCallers

LocalPath == "./config.json"
EtcPath == "/etc/alexandria/config.json"

\* the paths a caller may hand to GetConfigFromFile
CustomPaths == {"good.json", "bad.json", "missing.json"}

\* a call returns: the caller is free to call again
Return(p) == cpc' = [cpc EXCEPT ![p] = "idle"]

\* a caller calls GetConfig()
CallGetConfig(p) ==
    /\ cpc[p] = "idle"
    /\ calls[p] < MaxCalls
    /\ calls' = [calls EXCEPT ![p] = @ + 1]
    /\ call' = [call EXCEPT ![p] = "GetConfig"]
    /\ late' = [late EXCEPT ![p] = loaded]
    /\ cpc' = [cpc EXCEPT ![p] = "checkConfig"]
    /\ UNCHANGED <<config, confFilePath, files, arg, opened, allocated, discarded,
                   returned, loaded>>

\* a caller calls GetConfigFromFile(path)
CallGetConfigFromFile(p) ==
    /\ cpc[p] = "idle"
    /\ calls[p] < MaxCalls
    /\ calls' = [calls EXCEPT ![p] = @ + 1]
    /\ call' = [call EXCEPT ![p] = "GetConfigFromFile"]
    /\ late' = [late EXCEPT ![p] = loaded]
    /\ \E path \in CustomPaths : arg' = [arg EXCEPT ![p] = path]
    /\ cpc' = [cpc EXCEPT ![p] = "checkLoaded"]
    /\ UNCHANGED <<config, confFilePath, files, opened, allocated, discarded,
                   returned, loaded>>

\* if config != nil { return nil, errors.New(...) }
CheckLoaded(p) ==
    /\ cpc[p] = "checkLoaded"
    /\ IF config # 0 THEN Return(p) ELSE cpc' = [cpc EXCEPT ![p] = "setPath"]
    /\ UNCHANGED <<config, confFilePath, files, call, arg, opened, calls, allocated,
                   discarded, returned, loaded, late>>

\* confFilePath = path; return GetConfig()
SetPath(p) ==
    /\ cpc[p] = "setPath"
    /\ confFilePath' = arg[p]
    /\ cpc' = [cpc EXCEPT ![p] = "checkConfig"]
    /\ UNCHANGED <<config, files, call, arg, opened, calls, allocated, discarded,
                   returned, loaded, late>>

\* if config == nil {
CheckConfig(p) ==
    /\ cpc[p] = "checkConfig"
    /\ cpc' = [cpc EXCEPT ![p] = IF config = 0 THEN "selectFile" ELSE "return"]
    /\ UNCHANGED <<config, confFilePath, files, call, arg, opened, calls, allocated,
                   discarded, returned, loaded, late>>

\* if confFilePath == "" { os.Stat the two default paths, or return an error }
SelectFile(p) ==
    /\ cpc[p] = "selectFile"
    /\ IF confFilePath # ""
       THEN cpc' = [cpc EXCEPT ![p] = "open"] /\ UNCHANGED confFilePath
       ELSE IF files[LocalPath] # "absent"
       THEN cpc' = [cpc EXCEPT ![p] = "open"] /\ confFilePath' = LocalPath
       ELSE IF files[EtcPath] # "absent"
       THEN cpc' = [cpc EXCEPT ![p] = "open"] /\ confFilePath' = EtcPath
       ELSE Return(p) /\ UNCHANGED confFilePath
    /\ UNCHANGED <<config, files, call, arg, opened, calls, allocated, discarded,
                   returned, loaded, late>>

\* confFile, err := os.Open(confFilePath); if err != nil { return nil, err }
Open(p) ==
    /\ cpc[p] = "open"
    /\ IF files[confFilePath] = "absent"
       THEN Return(p) /\ UNCHANGED opened
       ELSE /\ opened' = [opened EXCEPT ![p] = files[confFilePath]]
            /\ cpc' = [cpc EXCEPT ![p] = "allocate"]
    /\ UNCHANGED <<config, confFilePath, files, call, arg, calls, allocated, discarded,
                   returned, loaded, late>>

\* config = &Config{...defaults...}
Allocate(p) ==
    /\ cpc[p] = "allocate"
    /\ allocated' = allocated + 1
    /\ config' = allocated + 1
    /\ cpc' = [cpc EXCEPT ![p] = "decode"]
    /\ UNCHANGED <<confFilePath, files, call, arg, opened, calls, discarded, returned,
                   loaded, late>>

\* if err = parser.Decode(config); err != nil { config = nil; return nil, err }
\* Decode gets the pointer config holds now, and rejects a nil pointer
Decode(p) ==
    /\ cpc[p] = "decode"
    /\ IF config # 0 /\ opened[p] = "good"
       THEN /\ loaded' = TRUE
            /\ cpc' = [cpc EXCEPT ![p] = "return"]
            /\ UNCHANGED <<config, discarded>>
       ELSE /\ discarded' = IF config # 0 THEN discarded \cup {config} ELSE discarded
            /\ config' = 0
            /\ Return(p)
            /\ UNCHANGED loaded
    /\ UNCHANGED <<confFilePath, files, call, arg, opened, calls, allocated, returned, late>>

\* return config, nil
ReturnConfig(p) ==
    /\ cpc[p] = "return"
    /\ returned' = IF config # 0 THEN returned \cup {config} ELSE returned
    /\ Return(p)
    /\ UNCHANGED <<config, confFilePath, files, call, arg, opened, calls, allocated,
                   discarded, loaded, late>>

InitConfig ==
    /\ config = 0
    /\ confFilePath = ""
    /\ \E local \in {"absent", "good", "bad"}, etc \in {"absent", "good"} :
          files = [f \in CustomPaths \cup {LocalPath, EtcPath} |->
                     CASE f = LocalPath -> local
                       [] f = EtcPath -> etc
                       [] f = "good.json" -> "good"
                       [] f = "bad.json" -> "bad"
                       [] OTHER -> "absent"]
    /\ cpc = [p \in Callers |-> "idle"]
    /\ call = [p \in Callers |-> ""]
    /\ arg = [p \in Callers |-> ""]
    /\ opened = [p \in Callers |-> ""]
    /\ calls = [p \in Callers |-> 0]
    /\ allocated = 0
    /\ discarded = {}
    /\ returned = {}
    /\ loaded = FALSE
    /\ late = [p \in Callers |-> FALSE]

\* the configuration loader at rest, for the behaviours that do not call it
IdleConfig ==
    /\ config = 0
    /\ confFilePath = ""
    /\ files = [f \in CustomPaths \cup {LocalPath, EtcPath} |-> "absent"]
    /\ cpc = [p \in Callers |-> "idle"]
    /\ call = [p \in Callers |-> ""]
    /\ arg = [p \in Callers |-> ""]
    /\ opened = [p \in Callers |-> ""]
    /\ calls = [p \in Callers |-> 0]
    /\ allocated = 0
    /\ discarded = {}
    /\ returned = {}
    /\ loaded = FALSE
    /\ late = [p \in Callers |-> FALSE]

(***************************************************************************)
(* The REST handlers that write CI types: AddCIType, UpdateCITypeByName    *)
(***************************************************************************)

\* the {cmdb} path variable: a CMDB that has a backend, and one that has none
Cmdbs == {<<"m">>, <<"n">>}

\* GetCmdbBackend(req, cmdb) # nil
HasBackend(cmdb) == cmdb = <<"m">>

\* the {name} path variable of an update
PathNames == {<<"a">>, <<"x">>, <<"!">>}

\* the attributes of the request bodies: one that Validate accepts, one that
\* it rejects
RequestLabels ==
    [Name : {<<"A">>}, ShortName : AttributeShortNames, Type : {"string", ""}]

\* the CI types that Bind decodes from a request body (decodes = FALSE in the
\* handlers: Bind returned an error)
RequestBodies ==
    { [Name |-> name, ShortName |-> shortName, Attributes |-> atts] :
        name \in CITypeNames, shortName \in CITypeShortNames,
        atts \in {<<>>} \cup { <<MakeAttribute(l, <<>>)>> : l \in RequestLabels } }

\* what a handler rendered: the call that wrote the response, the error it
\* reports and the Location header
Rendered(how, e, location) == [render |-> how, err |-> e, location |-> location]

NoResponse == Rendered("", Nil, <<>>)

\* fmt.Sprintf("/cmdbs/%s/citypes/%s", cmdb, citype.ShortName)
Location(cmdb, shortName) ==
    <<"/", "c", "m", "d", "b", "s", "/">> \o cmdb
        \o <<"/", "c", "i", "t", "y", "p", "e", "s", "/">> \o shortName

\* citype.InitModel(): a new model gets its identity and creation time, a
\* model that carries them keeps them
InitModel(c, id) ==
    IF c.Id = 0 THEN [c EXCEPT !.Id = id, !.Created = id] ELSE c

\* the model that Bind fills: no identity yet
Model(body) ==
    [Id |-> 0, Created |-> 0, Name |-> body.Name, ShortName |-> body.ShortName,
     Attributes |-> body.Attributes]

\* the fields of a model that Validate works on
Schema(c) == [Name |-> c.Name, ShortName |-> c.ShortName, Attributes |-> c.Attributes]

\* the model after citype.Validate() returned e and left the schema r
Validated(c, r) ==
    [c EXCEPT !.Name = r.Name, !.ShortName = r.ShortName, !.Attributes = r.Attributes]

\* the identity of the next record
NewId == Cardinality(store) + 1

\* the collection refuses a second record of the same short name
DuplicateKey(records, c) ==
    \E o \in records : o.Id # c.Id /\ o.ShortName = c.ShortName

\* Find(M{"shortname": name})
Find(name) == {o \in store : o.ShortName = name}

\* citype.Id = orig.Id; citype.Created = orig.Created;
\* citype.ShortName = GetShortName(citype.Name)
PrepareRecord(c, orig) ==
    [c EXCEPT !.Id = orig.Id, !.Created = orig.Created, !.ShortName = GetShortName(c.Name)]


\* POST /cmdbs/{cmdb}/citypes
AddCIType(cmdb, decodes, body) ==
    /\ Cardinality(store) < MaxRecords
    /\ IF ~decodes
       THEN response' = Rendered("Handle", Nil, <<>>) /\ store' = store
       ELSE \A r \in {ValidateCIType(Schema(InitModel(Model(body), NewId)))} :
            \A c \in {Validated(InitModel(Model(body), NewId), r.c)} :
              IF r.err # Nil
              THEN response' = Rendered("ErrBadRequest", r.err, <<>>) /\ store' = store
              ELSE IF ~HasBackend(cmdb)
              THEN response' = Rendered("ErrNotFound", Nil, <<>>) /\ store' = store
              ELSE IF DuplicateKey(store, c)
              THEN response' = Rendered("Handle", Nil, <<>>) /\ store' = store
              ELSE /\ store' = store \cup {c}
                   /\ response' = Rendered("RenderCreated", Nil, Location(cmdb, c.ShortName))
    /\ UNCHANGED <<schemaVars, formatVars, configVars>>

\* PUT /cmdbs/{cmdb}/citypes/{name}
UpdateCITypeByName(cmdb, name, decodes, body) ==
    /\ IF ~decodes
       THEN response' = Rendered("Handle", Nil, <<>>) /\ store' = store
       ELSE \A r \in {ValidateCIType(Schema(Model(body)))} :
              IF r.err # Nil
              THEN response' = Rendered("ErrBadRequest", r.err, <<>>) /\ store' = store
              ELSE IF ~HasBackend(cmdb)
              THEN response' = Rendered("ErrNotFound", Nil, <<>>) /\ store' = store
              ELSE IF Find(name) = {}
              THEN response' = Rendered("Handle", Nil, <<>>) /\ store' = store
              ELSE \A orig \in {CHOOSE o \in Find(name) : TRUE} :
                   \A c \in {InitModel(PrepareRecord(Validated(Model(body), r.c), orig), NewId)} :
                     IF DuplicateKey(store, c)
                     THEN response' = Rendered("Handle", Nil, <<>>) /\ store' = store
                     ELSE /\ store' = (store \ {orig}) \cup {c}
                          /\ response' = Rendered("RenderUpdated", Nil,
                                IF c.ShortName # orig.ShortName
                                THEN Location(cmdb, c.ShortName) ELSE <<>>)
    /\ UNCHANGED <<schemaVars, formatVars, configVars>>

\* an empty collection, and no request served yet
InitStore ==
    /\ store = {}
    /\ response = NoResponse

\* the collection at rest, for the behaviours that serve no request
IdleStore ==
    /\ store = {}
    /\ response = NoResponse

\* a step of the loader leaves the schema, the value validation and the store alone
OthersUnchanged == UNCHANGED <<schemaVars, formatVars, storeVars>>

(***************************************************************************)
(* Specifications                                                          *)
(***************************************************************************)

vars == <<pc, input, citype, err, examined, got, fpc, vformat, vatt, val0, val, verr,
          config, confFilePath, files, cpc, call, arg, opened, calls, allocated,
          discarded, returned, loaded, late, store, response>>

\* schema validation
Init == InitSchema /\ IdleFormat /\ IdleConfig /\ IdleStore

Next == Validate \/ ValidateAgain \/ Get

Spec == Init /\ [][Next]_vars

\* schema validation of requests that supply attribute short names
InitS == InitSupplied /\ IdleFormat /\ IdleConfig /\ IdleStore

SpecSupplied == InitS /\ [][Next]_vars

\* value validation
InitF == IdleSchema /\ InitFormat /\ IdleConfig /\ IdleStore

NextFormat ==
    ValidateString \/ ValidateNumber \/ ValidateBoolean \/ ValidateTimestamp \/ ValidateGroup

SpecFormat == InitF /\ [][NextFormat]_vars

\* concurrent callers of the configuration loader
InitC == IdleSchema /\ IdleFormat /\ InitConfig /\ IdleStore

NextConfig ==
    \/ \E p \in Callers : CallGetConfig(p) /\ OthersUnchanged
    \/ \E p \in Callers : CallGetConfigFromFile(p) /\ OthersUnchanged
    \/ \E p \in Callers : CheckLoaded(p) /\ OthersUnchanged
    \/ \E p \in Callers : SetPath(p) /\ OthersUnchanged
    \/ \E p \in Callers : CheckConfig(p) /\ OthersUnchanged
    \/ \E p \in Callers : SelectFile(p) /\ OthersUnchanged
    \/ \E p \in Callers : Open(p) /\ OthersUnchanged
    \/ \E p \in Callers : Allocate(p) /\ OthersUnchanged
    \/ \E p \in Callers : Decode(p) /\ OthersUnchanged
    \/ \E p \in Callers : ReturnConfig(p) /\ OthersUnchanged

SpecConfig == InitC /\ [][NextConfig]_vars

\* the REST handlers that write CI types
InitR == IdleSchema /\ IdleFormat /\ IdleConfig /\ InitStore

NextStore ==
    \/ \E cmdb \in Cmdbs, decodes \in BOOLEAN, body \in RequestBodies :
          AddCIType(cmdb, decodes, body)
    \/ \E cmdb \in Cmdbs, name \in PathNames, decodes \in BOOLEAN, body \in RequestBodies :
          UpdateCITypeByName(cmdb, name, decodes, body)

SpecStore == InitR /\ [][NextStore]_vars

(***************************************************************************)
(* Reference definitions for the properties of schema validation           *)
(***************************************************************************)

RECURSIVE Preorder(_)
\* every attribute of a tree, depth first, parents before children
Preorder(atts) ==
    IF atts = <<>> THEN <<>>
    ELSE <<Head(atts)>> \o Preorder(Head(atts).Children) \o Preorder(Tail(atts))

RECURSIVE FullPaths(_, _)
\* for every attribute, in the order of Preorder, the dotted path of the
\* derived short names from the root down to it
FullPaths(atts, prefix) ==
    IF atts = <<>> THEN <<>>
    ELSE LET here == prefix \o GetShortName(Head(atts).Name) IN
         <<here>> \o FullPaths(Head(atts).Children, here \o <<".">>)
                  \o FullPaths(Tail(atts), prefix)

RECURSIVE SiblingLists(_)
\* the root list and the Children of every attribute below it
SiblingLists(atts) ==
    {atts} \cup UNION { SiblingLists(atts[i].Children) : i \in 1..Len(atts) }

\* the first of the five per-attribute checks that att fails, "" if none
FirstFailedCheck(att) ==
    CASE att.Name = <<>> -> ErrNoAttributeName
      [] att.Name # <<>> /\ ~IsValidShortName(GetShortName(att.Name)) -> ErrAttributeChars
      [] OTHER ->
           IF att.Type = "" THEN ErrNoType
           ELSE IF att.Type \notin RegisteredFormats THEN ErrUnsupported
           ELSE IF att.Type # "group" /\ att.Children # <<>> THEN ErrChildren
           ELSE ""

\* the attributes of the request that fail a check of their own
Offenders(atts) ==
    UNION { {k \in 1..Len(P) : FirstFailedCheck(P[k]) # ""} : P \in {Preorder(atts)} }

Min(S) == CHOOSE k \in S : \A j \in S : k <= j

\* the CI type name and short name of the request pass Validate's checks
HeadPasses ==
    /\ input.Name # <<>>
    /\ IsValidShortName(IF input.ShortName = <<>> THEN GetShortName(input.Name)
                        ELSE input.ShortName)

\* validateAttributes accepts the attribute on its own
PassesAlone(att) == validateAttributes(<<att>>, <<>>).err = Nil

\* the last path component of an error's attribute path
LastComponent(p) ==
    LET dots == {i \in 1..Len(p) : p[i] = "."}
        from == IF dots = {} THEN 1 ELSE (CHOOSE i \in dots : \A j \in dots : j <= i) + 1
    IN  SubSeq(p, from, Len(p))

(***************************************************************************)
(* C1  A group attribute with children (valid name, short name and type)   *)
(* passes schema validation iff every child passes validateAttributes on   *)
(* its own; a non-group attribute with children anywhere in the schema     *)
(* makes CIType.Validate return an error.                                  *)
(***************************************************************************)
C1_GroupIffChildren ==
    pc = "validated" =>
        \A P \in {Preorder(input.Attributes)} :
        /\ \A k \in 1..Len(P) :
              ( /\ P[k].Type = "group"
                /\ P[k].Children # <<>>
                /\ P[k].Name # <<>>
                /\ IsValidShortName(GetShortName(P[k].Name)) )
              => ( PassesAlone(P[k])
                     <=> \A i \in 1..Len(P[k].Children) : PassesAlone(P[k].Children[i]) )
        /\ ( /\ HeadPasses
             /\ Len(input.Attributes) = 1
             /\ input.Attributes[1].Type = "group"
             /\ input.Attributes[1].Name # <<>>
             /\ IsValidShortName(GetShortName(input.Attributes[1].Name)) )
           => ( err = Nil
                  <=> \A i \in 1..Len(input.Attributes[1].Children) :
                          PassesAlone(input.Attributes[1].Children[i]) )
        /\ (\E k \in 1..Len(P) : P[k].Type # "group" /\ P[k].Children # <<>>)
           => err # Nil

\* a group with two children was validated and accepted
C1_Witness ==
    /\ pc = "validated"
    /\ err = Nil
    /\ Len(input.Attributes) = 1
    /\ input.Attributes[1].Type = "group"
    /\ Len(input.Attributes[1].Children) = 2

(***************************************************************************)
(* C2 (as claimed)  For every schema with an attribute of unregistered     *)
(* type, Validate fails and the error it returns is the "Unsupported       *)
(* attribute format '<type>'" error for that attribute.                    *)
(***************************************************************************)
C2_UnsupportedAlwaysReported ==
    pc = "validated" =>
        \A P \in {Preorder(input.Attributes)} :
        \A k \in 1..Len(P) :
            GetAttributeFormat(P[k].Type) = NilFormat
            => /\ err.msg = ErrUnsupported
               /\ err.format = P[k].Type
               /\ LastComponent(err.attribute) = GetShortName(P[k].Name)

(***************************************************************************)
(* C2 (amended)  GetAttributeFormat returns nil for every unregistered     *)
(* name; every schema with an attribute of unregistered type fails         *)
(* Validate; and the error is the "Unsupported attribute format '<type>'"  *)
(* error for that attribute when no check before it fails: the CI type     *)
(* name and short name pass, every attribute before it in depth-first      *)
(* order passes its checks, and its own name is non-empty, its short name  *)
(* valid and its type non-empty.                                           *)
(***************************************************************************)
C2_UnsupportedWhenFirst ==
    /\ \A t \in AttributeTypes \ RegisteredFormats : GetAttributeFormat(t) = NilFormat
    /\ pc = "validated" =>
        \A P \in {Preorder(input.Attributes)} :
        \A k \in 1..Len(P) :
            GetAttributeFormat(P[k].Type) = NilFormat
            => /\ err # Nil
               /\ ( /\ HeadPasses
                    /\ \A j \in 1..(k - 1) : FirstFailedCheck(P[j]) = ""
                    /\ P[k].Name # <<>>
                    /\ IsValidShortName(GetShortName(P[k].Name))
                    /\ P[k].Type # "" )
                  => /\ err.msg = ErrUnsupported
                     /\ err.format = P[k].Type
                     /\ LastComponent(err.attribute) = GetShortName(P[k].Name)

\* the unsupported-format error was returned for an attribute inside a group
C2_Witness ==
    /\ pc = "validated"
    /\ err.msg = ErrUnsupported
    /\ err.format = "bogus"
    /\ examined = 2
    /\ input.Attributes[1].Type = "group"

(***************************************************************************)
(* C3  Whenever Validate returns nil the CI type's ShortName is non-empty  *)
(* and passes IsValidShortName; it is GetShortName(Name) when the request  *)
(* carried none, and the supplied one otherwise.                           *)
(***************************************************************************)
C3_ShortNameAfterValidate ==
    (pc = "validated" /\ err = Nil) =>
        /\ citype.ShortName # <<>>
        /\ IsValidShortName(citype.ShortName)
        /\ input.ShortName = <<>> => citype.ShortName = GetShortName(input.Name)
        /\ input.ShortName # <<>> => citype.ShortName = input.ShortName

\* a request without short name was accepted and its short name derived
C3_Witness ==
    /\ pc = "validated"
    /\ err = Nil
    /\ input.ShortName = <<>>
    /\ citype.ShortName = <<"a">>

(***************************************************************************)
(* C4  When Validate returns an error the schema is exactly as it was      *)
(* before the call: no ShortName of the CI type or of any attribute has    *)
(* changed.                                                                *)
(***************************************************************************)
C4_RejectedSchemaUntouched ==
    (pc = "validated" /\ err # Nil) => citype = input

(***************************************************************************)
(* C5  After Validate succeeds the ShortNames within every sibling list    *)
(* (the root list and each group's Children) are pairwise distinct, so     *)
(* that Get(shortName) identifies exactly one attribute.                   *)
(***************************************************************************)
C5_SiblingShortNamesDistinct ==
    (pc = "validated" /\ err = Nil) =>
        \A l \in SiblingLists(citype.Attributes) :
            \A i, j \in 1..Len(l) : l[i].ShortName = l[j].ShortName => i = j

(***************************************************************************)
(* C6  Every format validator returns an error, for every value, when      *)
(* att.Type differs from the validator's own format name, and leaves the   *)
(* value unchanged in that case.                                           *)
(***************************************************************************)
C6_MismatchedTypeRejected ==
    (fpc = "done" /\ vatt.Type # vformat) => (verr # "" /\ val = val0)

\* the string validator rejected a good string under the type "notstring"
C6_Witness ==
    /\ fpc = "done"
    /\ vformat = "string"
    /\ vatt.Type = "notstring"
    /\ val0 = StrVal(<<"S", "h", "o", "u", "l", "d">>)
    /\ verr # ""

(***************************************************************************)
(* C7 (as claimed)  The boolean validator accepts every numeric input and  *)
(* coerces the cell to true for every non-zero number and to false for     *)
(* zero, and only for zero.                                                *)
(***************************************************************************)
C7_NonZeroIsTrue ==
    (fpc = "done" /\ vformat = "boolean" /\ vatt.Type = "boolean" /\ val0.kind = "number")
        => (verr = "" /\ val = BoolVal(val0.n # 0))

(***************************************************************************)
(* C7 (amended)  The boolean validator accepts every numeric input and     *)
(* coerces the cell to true for every positive number and to false for     *)
(* zero and for every negative number.                                     *)
(***************************************************************************)
C7_PositiveIsTrue ==
    (fpc = "done" /\ vformat = "boolean" /\ vatt.Type = "boolean" /\ val0.kind = "number")
        => (verr = "" /\ val = BoolVal(val0.n > 0))

\* the number -10 was coerced to false
C7_Witness ==
    /\ fpc = "done"
    /\ vformat = "boolean"
    /\ vatt.Type = "boolean"
    /\ val0 = NumVal(-10)
    /\ val = BoolVal(FALSE)
    /\ verr = ""

(***************************************************************************)
(* C8  GetConfig returns a singleton: in every interleaving of GetConfig   *)
(* and GetConfigFromFile calls, every call that returns a non-nil *Config  *)
(* returns the same pointer; no caller is handed a Config that a failed    *)
(* decode discards; and once a configuration is loaded GetConfigFromFile   *)
(* returns its error without going on to change confFilePath or config.    *)
(***************************************************************************)
C8_ConfigSingleton ==
    /\ Cardinality(returned) <= 1
    /\ returned \cap discarded = {}
    /\ \A p \in Callers :
          (call[p] = "GetConfigFromFile" /\ late[p]) => cpc[p] \in {"checkLoaded", "idle"}

(***************************************************************************)
(* C9  Every error returned for an attribute names the full dotted path    *)
(* of short names from the root to the offending attribute, at every       *)
(* depth.                                                                  *)
(***************************************************************************)
C9_ErrorNamesFullPath ==
    (pc = "validated" /\ err.msg \in {ErrAttributeChars, ErrNoType, ErrUnsupported, ErrChildren})
        => err.attribute = FullPaths(input.Attributes, <<>>)[examined]

(***************************************************************************)
(* C10  Validate returns exactly the first error met when checking the CI  *)
(* type name, then its short name, then the attributes depth first         *)
(* (siblings in list order, a group's children before its next sibling),   *)
(* the per-attribute checks in the order empty name, invalid short name,   *)
(* empty type, unregistered type, children on a non-group; no attribute    *)
(* after the first offending one is examined or modified.                  *)
(***************************************************************************)
C10_FirstErrorInOrder ==
    pc = "validated" =>
        \A P \in {Preorder(input.Attributes)}, Q \in {Preorder(citype.Attributes)},
           bad \in {Offenders(input.Attributes)} :
            IF input.Name = <<>>
            THEN err.msg = ErrNoCITypeName /\ examined = 0 /\ Q = P
            ELSE IF ~HeadPasses
            THEN err.msg = ErrCITypeChars /\ examined = 0 /\ Q = P
            ELSE IF bad = {}
            THEN err = Nil /\ examined = Len(P)
            ELSE \A first \in {Min(bad)} :
                 /\ err.msg = FirstFailedCheck(P[first])
                 /\ examined = first
                 /\ Len(Q) = Len(P)
                 /\ \A j \in (first + 1)..Len(P) : Q[j] = P[j]
                 /\ \A j \in 1..(first - 1) : Q[j].ShortName = GetShortName(P[j].Name)

\* the first child of a group was rejected and the group's next sibling left alone
C10_Witness ==
    /\ pc = "validated"
    /\ err # Nil
    /\ examined = 2
    /\ Len(input.Attributes) = 2
    /\ input.Attributes[1].Type = "group"
    /\ Len(input.Attributes[1].Children) = 1
    /\ citype.Attributes[2] = input.Attributes[2]

(***************************************************************************)
(* C11  After Validate succeeds every attribute of the tree, at every      *)
(* depth, has ShortName = GetShortName(Name), whatever short name the      *)
(* request supplied for it; and a second Validate on the result succeeds   *)
(* and changes nothing.                                                    *)
(***************************************************************************)
C11_DerivedAndIdempotent ==
    /\ [](((pc \in {"validated", "revalidated"}) /\ err = Nil) =>
            \A Q \in {Preorder(citype.Attributes)} :
               /\ Len(Q) = Len(Preorder(input.Attributes))
               /\ \A k \in 1..Len(Q) : Q[k].ShortName = GetShortName(Q[k].Name))
    /\ [][(pc = "validated" /\ pc' = "revalidated") => (err' = Nil /\ citype' = citype)]_vars

\* a group and its child were supplied with short names of their own, both
\* were replaced by the derived ones, and the schema was validated twice
C11_Witness ==
    /\ pc = "revalidated"
    /\ err = Nil
    /\ Len(input.Attributes) = 1
    /\ Len(input.Attributes[1].Children) = 1
    /\ input.Attributes[1].ShortName = <<"x">>
    /\ input.Attributes[1].Children[1].ShortName = <<"!">>
    /\ citype.Attributes[1].ShortName = <<"a">>
    /\ citype.Attributes[1].Children[1].ShortName = <<"a">>

(***************************************************************************)
(* C12  Every CI type record that AddCIType or UpdateCITypeByName writes   *)
(* to the store has a ShortName that passes IsValidShortName; that holds   *)
(* in particular for the short name an update re-derives from the new      *)
(* Name after Validate accepted the request's own non-empty ShortName.     *)
(***************************************************************************)
C12_StoredShortNamesValid ==
    \A c \in store : IsValidShortName(c.ShortName)

====
